---- MODULE Spec2Model ----
(***************************************************************************)
(* Model of fine-tune.py: the batch transform dataset_transform and the    *)
(* linear pipeline train().                                                *)
(*                                                                         *)
(* Spec   : one run of train(), one action per statement, with the         *)
(*          outcomes of the collaborators (argument parser, model hub,     *)
(*          datasets library, peft, Trainer) drawn from small sets.        *)
(* SpecT  : one call of dataset_transform on a batch of prompts, with the  *)
(*          tensors it handles kept in a heap so that aliasing shows.      *)
(***************************************************************************)
EXTENDS Integers, Sequences, FiniteSets, TLC

VARIABLES
    \* ---- train() ----
    pc,            \* position in train(): the statement to execute next
    argv,          \* the command line and the environment of the run
    args,          \* the parsed dataclasses (model_args, data_args, training_args)
    model,         \* the local `model`
    tokenizer,     \* the local `tokenizer`
    dataset,       \* the local `dataset`
    trainer,       \* the local `trainer`
    outdir,        \* the artifacts present in training_args.output_dir
    log,           \* the collaborator calls executed so far, in order
    raised,        \* the calls that raised an exception
    exit_status,   \* the exit status of the process, -1 while train() runs
    \* ---- dataset_transform() ----
    tpc,           \* position in dataset_transform
    batch,         \* the argument `batch`: batch["prompt"] is a list of texts
    heap,          \* the tensors allocated so far, addressed by reference
    outputs,       \* the local `outputs` (references into heap)
    labels,        \* the local `labels` (a reference into heap)
    ret            \* the returned dict (references into heap)

vars == <<pc, argv, args, model, tokenizer, dataset, trainer, outdir, log,
          raised, exit_status, tpc, batch, heap, outputs, labels, ret>>

trainVars == <<pc, argv, args, model, dataset, trainer, outdir, log,
               raised, exit_status>>

transformVars == <<tpc, batch, heap, outputs, labels, ret>>

(***************************************************************************)
(* Bounds of the model.                                                    *)
(***************************************************************************)
MaxPromptLen == 2      \* short prompts have 0..MaxPromptLen characters
MaxOver == 1           \* the long prompt has max_length+MaxOver characters
MaxBatch == 2          \* a batch has 1..MaxBatch prompts
SmallN == 2            \* small datasets have 0..SmallN rows
ExtraN == 2            \* large datasets have test_size .. test_size+ExtraN rows

(***************************************************************************)
(* Program constants.                                                      *)
(***************************************************************************)
default_model_max_length == 512     \* TrainingArguments.model_max_length
max_length == 512                   \* the max_length passed to the tokenizer
ignore_index == -100                \* the value written into labels
test_size == 1000                   \* train_test_split(test_size=1000, ...)

None == "None"

(***************************************************************************)
(* The tokenizer.  A text is a sequence of characters; the vocabulary maps *)
(* each character to a token id, and the text of the end-of-sequence       *)
(* marker ("E") to eos_token_id.                                           *)
(***************************************************************************)
Chars == {"a", "E"}
eos_token_id == 2
unk_token_id == 0

Vocab == [c \in Chars |-> IF c = "E" THEN eos_token_id ELSE 5]

\* AutoTokenizer.from_pretrained(..., model_max_length=mml): the pad token is
\* whatever the checkpoint configures (`pad`).
TokenizerFromPretrained(mml, pad, side) ==
    [model_max_length |-> mml,
     eos_token_id     |-> eos_token_id,
     pad_token_id     |-> pad,
     padding_side     |-> side]

\* tokenizer.pad_token_id = tokenizer.eos_token_id
SetPadToken(tk) == [tk EXCEPT !.pad_token_id = tk.eos_token_id]

Encode(text) == [i \in 1..Len(text) |-> Vocab[text[i]]]

\* truncation=True, max_length=n
Truncate(ids, n) == IF Len(ids) > n THEN SubSeq(ids, 1, n) ELSE ids

MaxOf(S) == IF S = {} THEN 0 ELSE CHOOSE m \in S : \A x \in S : x <= m

Fill(v, n) == [i \in 1..n |-> v]

\* padding="longest": pad every row to length L on tk.padding_side
PadRow(row, L, v, side) ==
    IF side = "right" THEN row \o Fill(v, L - Len(row))
                      ELSE Fill(v, L - Len(row)) \o row

\* tokenizer(prompts, padding="longest", truncation=True, max_length=n,
\*           return_tensors="pt")
TokenizerCall(tk, prompts, n) ==
    LET enc == [i \in 1..Len(prompts) |-> Truncate(Encode(prompts[i]), n)]
        L   == MaxOf({Len(enc[i]) : i \in 1..Len(prompts)})
    IN  [input_ids |->
            [i \in 1..Len(prompts) |->
                PadRow(enc[i], L, tk.pad_token_id, tk.padding_side)],
         attention_mask |->
            [i \in 1..Len(prompts) |->
                PadRow(Fill(1, Len(enc[i])), L, 0, tk.padding_side)]]

\* t[m == 1] = v  (the mask read the wrong way round)
MaskedFillInverted(t, m, v) ==
    [i \in 1..Len(t) |->
        [j \in 1..Len(t[i]) |-> IF m[i][j] = 1 THEN v ELSE t[i][j]]]

\* t[m == 0] = v  (a masked assignment into tensor t)
MaskedFill(t, m, v) ==
    [i \in 1..Len(t) |->
        [j \in 1..Len(t[i]) |-> IF m[i][j] = 0 THEN v ELSE t[i][j]]]

(***************************************************************************)
(* dataset_transform(batch, tokenizer)                                     *)
(***************************************************************************)
\* outputs = tokenizer(batch["prompt"], ...)
Tokenize ==
    /\ tpc = "tokenize"
    /\ LET out == TokenizerCall(tokenizer, batch.prompt, max_length)
       IN  /\ heap' = <<out.input_ids, out.attention_mask>>
           /\ outputs' = [input_ids |-> 1, attention_mask |-> 2]
    /\ tpc' = "clone"
    /\ UNCHANGED <<batch, labels, ret, tokenizer>>
    /\ UNCHANGED trainVars

\* labels = outputs.input_ids   (the clone forgotten)
CloneAliased ==
    /\ tpc = "clone"
    /\ labels' = outputs.input_ids
    /\ tpc' = "mask"
    /\ UNCHANGED <<batch, heap, outputs, ret, tokenizer>>
    /\ UNCHANGED trainVars

\* labels = outputs.input_ids.clone()
Clone ==
    /\ tpc = "clone"
    /\ heap' = Append(heap, heap[outputs.input_ids])
    /\ labels' = Len(heap) + 1
    /\ tpc' = "mask"
    /\ UNCHANGED <<batch, outputs, ret, tokenizer>>
    /\ UNCHANGED trainVars

\* labels[outputs.input_ids == tokenizer.pad_token_id] = -100
MaskLabelsByPadId ==
    /\ tpc = "mask"
    /\ heap' = [heap EXCEPT ![labels] =
                  [i \in 1..Len(@) |->
                     [j \in 1..Len(@[i]) |->
                        IF heap[outputs.input_ids][i][j] = tokenizer.pad_token_id
                        THEN ignore_index ELSE @[i][j]]]]
    /\ tpc' = "return"
    /\ UNCHANGED <<batch, outputs, labels, ret, tokenizer>>
    /\ UNCHANGED trainVars

\* labels[outputs.attention_mask == 0] = -100
MaskLabels ==
    /\ tpc = "mask"
    /\ heap' = [heap EXCEPT ![labels] =
                  MaskedFill(@, heap[outputs.attention_mask], ignore_index)]
    /\ tpc' = "return"
    /\ UNCHANGED <<batch, outputs, labels, ret, tokenizer>>
    /\ UNCHANGED trainVars

\* return {"input_ids": ..., "attention_mask": ..., "labels": labels}
Return ==
    /\ tpc = "return"
    /\ ret' = [input_ids      |-> outputs.input_ids,
               attention_mask |-> outputs.attention_mask,
               labels         |-> labels]
    /\ tpc' = "returned"
    /\ UNCHANGED <<batch, heap, outputs, labels, tokenizer>>
    /\ UNCHANGED trainVars

(***************************************************************************)
(* train(): the environment of a run.                                      *)
(***************************************************************************)
Sizes == (0..SmallN) \cup (test_size..(test_size + ExtraN))

\* What load_from_disk finds at data_path: nothing loadable, a Dataset, or a
\* DatasetDict with a "train" split or without one.
DiskObjects ==
    {[kind |-> "missing"]}
    \cup {[kind |-> "Dataset", n |-> n] : n \in Sizes}
    \cup {[kind |-> "DatasetDict", rows |-> [s \in {"train"} |-> n]] : n \in Sizes}
    \cup {[kind |-> "DatasetDict", rows |-> [s \in {"validation"} |-> 1]]}

\* What the hub holds under data_path: nothing with a "train" split, or a
\* repository whose "train" split has n rows.
HubObjects ==
    {[kind |-> "missing"]} \cup {[kind |-> "Dataset", n |-> n] : n \in Sizes}

ModelMaxLengths == {1, default_model_max_length}

Argvs ==
    [use_lora         : BOOLEAN,
     model_max_length : ModelMaxLengths,
     data_path        : {None, "data"},
     arch             : {"baichuan", "other"},
     disk             : DiskObjects,
     hub              : HubObjects]

\* The order of the collaborator calls in the text of train().
Pipeline ==
    <<"parse_args", "load_model", "load_tokenizer", "get_peft_model",
      "load_from_disk", "load_dataset", "set_transform", "train_test_split",
      "Trainer", "train", "save_state", "save_model">>

IndexOf(call) == CHOOSE i \in 1..Len(Pipeline) : Pipeline[i] = call

Count(call) == Cardinality({i \in 1..Len(log) : log[i] = call})

Last(s) == s[Len(s)]

\* An exception leaves train(): the process ends with a non-zero status.
Raise(call, type, status) ==
    /\ pc' = "failed"
    /\ raised' = Append(raised, [call |-> call, type |-> type])
    /\ exit_status' = status

(***************************************************************************)
(* The model and the adapter.  A parameter is <<module, name>>.            *)
(***************************************************************************)
BaseModules(arch) ==
    IF arch = "baichuan" THEN {"embed_tokens", "W_pack", "o_proj"}
                         ELSE {"embed_tokens", "q_proj", "o_proj"}

AdapterNames == {"lora_A", "lora_B"}

\* AutoModelForCausalLM.from_pretrained(...)
ModelFromPretrained(arch) ==
    [wrapped              |-> FALSE,
     input_require_grads  |-> FALSE,
     requires_grad        |-> [p \in BaseModules(arch) \X {"weight"} |-> TRUE]]

\* the same configuration with inference_mode=True
peft_config_inference ==
    [target_modules |-> {"W_pack"}, inference_mode |-> TRUE,
     r |-> 16, lora_alpha |-> 64]

\* LoraConfig(task_type=CAUSAL_LM, target_modules=["W_pack"],
\*            inference_mode=False, r=16, lora_alpha=64, lora_dropout=0.1)
peft_config ==
    [target_modules |-> {"W_pack"}, inference_mode |-> FALSE,
     r |-> 16, lora_alpha |-> 64]

Targets(m, cfg) == {p \in DOMAIN m.requires_grad : p[1] \in cfg.target_modules}

\* get_peft_model(m, cfg): the base parameters are frozen, every targeted
\* module receives the adapter matrices, trainable unless inference_mode.
GetPeftModel(m, cfg) ==
    LET base    == DOMAIN m.requires_grad
        adapter == {t[1] : t \in Targets(m, cfg)} \X AdapterNames
    IN  [wrapped             |-> TRUE,
         input_require_grads |-> m.input_require_grads,
         requires_grad       |->
             [p \in base \cup adapter |->
                 IF p \in adapter THEN ~cfg.inference_mode ELSE FALSE]]

(***************************************************************************)
(* train(), one action per statement.                                      *)
(***************************************************************************)
\* parser = HfArgumentParser(...); parser.parse_args_into_dataclasses()
ParseArgs ==
    /\ pc = "parse_args"
    /\ log' = Append(log, "parse_args")
    /\ \E ok \in BOOLEAN :
         IF ok
         THEN /\ args' = [use_lora         |-> argv.use_lora,
                          model_max_length |-> argv.model_max_length,
                          data_path        |-> argv.data_path]
              /\ pc' = "load_model"
              /\ UNCHANGED <<raised, exit_status>>
         ELSE /\ Raise("parse_args", "SystemExit", 2)
              /\ UNCHANGED args
    /\ UNCHANGED <<argv, model, tokenizer, dataset, trainer, outdir>>
    /\ UNCHANGED transformVars

\* model = AutoModelForCausalLM.from_pretrained(...)
LoadModel ==
    /\ pc = "load_model"
    /\ log' = Append(log, "load_model")
    /\ \E ok \in BOOLEAN :
         IF ok
         THEN /\ model' = ModelFromPretrained(argv.arch)
              /\ pc' = "load_tokenizer"
              /\ UNCHANGED <<raised, exit_status>>
         ELSE /\ Raise("load_model", "Fault", 1)
              /\ UNCHANGED model
    /\ UNCHANGED <<argv, args, tokenizer, dataset, trainer, outdir>>
    /\ UNCHANGED transformVars

\* tokenizer = AutoTokenizer.from_pretrained(..., model_max_length=...)
LoadTokenizer ==
    /\ pc = "load_tokenizer"
    /\ log' = Append(log, "load_tokenizer")
    /\ \E ok \in BOOLEAN :
         IF ok
         THEN /\ \E pad \in {unk_token_id, eos_token_id},
                    side \in {"right", "left"} :
                    tokenizer' = TokenizerFromPretrained(
                                     args.model_max_length, pad, side)
              /\ pc' = "set_pad_token"
              /\ UNCHANGED <<raised, exit_status>>
         ELSE /\ Raise("load_tokenizer", "Fault", 1)
              /\ UNCHANGED tokenizer
    /\ UNCHANGED <<argv, args, model, dataset, trainer, outdir>>
    /\ UNCHANGED transformVars

\* tokenizer.pad_token_id = tokenizer.eos_token_id
SetPadTokenId ==
    /\ pc = "set_pad_token"
    /\ tokenizer' = SetPadToken(tokenizer)
    /\ pc' = "use_lora"
    /\ UNCHANGED <<argv, args, model, dataset, trainer, outdir, log, raised,
                   exit_status>>
    /\ UNCHANGED transformVars

\* if training_args.use_lora: ... model = get_peft_model(model, peft_config)
InjectAdapter ==
    /\ pc = "use_lora"
    /\ args.use_lora
    /\ log' = Append(log, "get_peft_model")
    /\ \E ok \in BOOLEAN :
         LET m == [model EXCEPT !.input_require_grads = TRUE]
         IN  IF ~ok
             THEN /\ Raise("get_peft_model", "Fault", 1)
                  /\ UNCHANGED model
             ELSE IF Targets(m, peft_config) = {}
             THEN /\ Raise("get_peft_model", "ValueError", 1)
                  /\ model' = m
             ELSE /\ model' = GetPeftModel(m, peft_config)
                  /\ pc' = "load_from_disk"
                  /\ UNCHANGED <<raised, exit_status>>
    /\ UNCHANGED <<argv, args, tokenizer, dataset, trainer, outdir>>
    /\ UNCHANGED transformVars

\* if training_args.use_lora:   (not taken)
SkipAdapter ==
    /\ pc = "use_lora"
    /\ ~args.use_lora
    /\ pc' = "load_from_disk"
    /\ UNCHANGED <<argv, args, model, tokenizer, dataset, trainer, outdir,
                   log, raised, exit_status>>
    /\ UNCHANGED transformVars

\* the remote fetch placed after the local load instead of in its handler
LoadFromDiskAlwaysFetches ==
    /\ pc = "load_from_disk"
    /\ log' = Append(log, "load_from_disk")
    /\ \E ok \in BOOLEAN :
         IF ~ok \/ args.data_path = None \/ argv.disk.kind = "missing"
         THEN /\ raised' = Append(raised,
                     [call |-> "load_from_disk",
                      type |-> IF ok THEN "FileNotFoundError" ELSE "Fault"])
              /\ UNCHANGED dataset
         ELSE /\ dataset' = [kind |-> "Dataset", n |-> 0, origin |-> "disk",
                             split |-> None, transform |-> FALSE]
              /\ UNCHANGED raised
    /\ pc' = "load_dataset"
    /\ UNCHANGED <<argv, args, model, tokenizer, trainer, outdir, exit_status>>
    /\ UNCHANGED transformVars

\* try: dataset = load_from_disk(data_path)
\*      if "train" in dataset: dataset = dataset["train"]
\* except: -> the handler
LoadFromDisk ==
    /\ pc = "load_from_disk"
    /\ log' = Append(log, "load_from_disk")
    /\ \E ok \in BOOLEAN :
         IF ~ok \/ args.data_path = None \/ argv.disk.kind = "missing"
         THEN /\ raised' = Append(raised,
                     [call |-> "load_from_disk",
                      type |-> IF ok THEN "FileNotFoundError" ELSE "Fault"])
              /\ pc' = "load_dataset"
              /\ UNCHANGED dataset
         ELSE /\ dataset' =
                   IF argv.disk.kind = "DatasetDict"
                   THEN IF "train" \in DOMAIN argv.disk.rows
                        THEN [kind |-> "Dataset", n |-> argv.disk.rows["train"],
                              origin |-> "disk", split |-> "train",
                              transform |-> FALSE]
                        ELSE [kind |-> "DatasetDict", rows |-> argv.disk.rows,
                              origin |-> "disk", transform |-> FALSE]
                   ELSE [kind |-> "Dataset", n |-> argv.disk.n,
                         origin |-> "disk", split |-> None,
                         transform |-> FALSE]
              /\ pc' = "set_transform"
              /\ UNCHANGED raised
    /\ UNCHANGED <<argv, args, model, tokenizer, trainer, outdir, exit_status>>
    /\ UNCHANGED transformVars

\* except: dataset = load_dataset(data_path, split="train"), tried again
\* when it fails
LoadDatasetRetrying ==
    /\ pc = "load_dataset"
    /\ log' = Append(log, "load_dataset")
    /\ \E ok \in BOOLEAN :
         IF ~ok \/ args.data_path = None \/ argv.hub.kind = "missing"
         THEN /\ raised' = Append(raised,
                     [call |-> "load_dataset", type |-> "Fault"])
              /\ pc' = IF Count("load_dataset") = 0 THEN "load_dataset"
                                                    ELSE "failed"
              /\ exit_status' = IF Count("load_dataset") = 0 THEN exit_status
                                                             ELSE 1
              /\ UNCHANGED dataset
         ELSE /\ dataset' = [kind |-> "Dataset", n |-> argv.hub.n,
                             origin |-> "hub", split |-> "train",
                             transform |-> FALSE]
              /\ pc' = "set_transform"
              /\ UNCHANGED <<raised, exit_status>>
    /\ UNCHANGED <<argv, args, model, tokenizer, trainer, outdir>>
    /\ UNCHANGED transformVars

\* except: dataset = load_dataset(data_path, split="train")
LoadDataset ==
    /\ pc = "load_dataset"
    /\ log' = Append(log, "load_dataset")
    /\ \E ok \in BOOLEAN :
         IF ~ok
         THEN /\ Raise("load_dataset", "Fault", 1)
              /\ UNCHANGED dataset
         ELSE IF args.data_path = None \/ argv.hub.kind = "missing"
         THEN /\ Raise("load_dataset", "FileNotFoundError", 1)
              /\ UNCHANGED dataset
         ELSE /\ dataset' = [kind |-> "Dataset", n |-> argv.hub.n,
                             origin |-> "hub", split |-> "train",
                             transform |-> FALSE]
              /\ pc' = "set_transform"
              /\ UNCHANGED <<raised, exit_status>>
    /\ UNCHANGED <<argv, args, model, tokenizer, trainer, outdir>>
    /\ UNCHANGED transformVars

\* dataset.set_transform(partial(dataset_transform, tokenizer=tokenizer))
SetTransform ==
    /\ pc = "set_transform"
    /\ log' = Append(log, "set_transform")
    /\ \E ok \in BOOLEAN :
         IF ok
         THEN /\ dataset' = [dataset EXCEPT !.transform = TRUE]
              /\ pc' = "train_test_split"
              /\ UNCHANGED <<raised, exit_status>>
         ELSE /\ Raise("set_transform", "Fault", 1)
              /\ UNCHANGED dataset
    /\ UNCHANGED <<argv, args, model, tokenizer, trainer, outdir>>
    /\ UNCHANGED transformVars

\* dataset = dataset.train_test_split(test_size=1000, seed=42)
\* A DatasetDict has no train_test_split; an integer test_size must be
\* smaller than the number of rows.
TrainTestSplit ==
    /\ pc = "train_test_split"
    /\ log' = Append(log, "train_test_split")
    /\ \E ok \in BOOLEAN :
         IF ~ok
         THEN /\ Raise("train_test_split", "Fault", 1)
              /\ UNCHANGED dataset
         ELSE IF dataset.kind = "DatasetDict"
         THEN /\ Raise("train_test_split", "AttributeError", 1)
              /\ UNCHANGED dataset
         ELSE IF test_size >= dataset.n
         THEN /\ Raise("train_test_split", "ValueError", 1)
              /\ UNCHANGED dataset
         ELSE /\ dataset' =
                   [kind |-> "DatasetDict",
                    rows |-> [s \in {"train", "test"} |->
                                 IF s = "test" THEN test_size
                                               ELSE dataset.n - test_size],
                    origin |-> dataset.origin,
                    transform |-> dataset.transform]
              /\ pc' = "Trainer"
              /\ UNCHANGED <<raised, exit_status>>
    /\ UNCHANGED <<argv, args, model, tokenizer, trainer, outdir>>
    /\ UNCHANGED transformVars

\* the pipeline with the trainer.train() statement left out
MakeTrainerThenSave ==
    /\ pc = "Trainer"
    /\ log' = Append(log, "Trainer")
    /\ trainer' = [model         |-> model,
                   train_dataset |-> dataset.rows["train"],
                   eval_dataset  |-> dataset.rows["test"],
                   tokenizer     |-> tokenizer,
                   trained       |-> FALSE]
    /\ pc' = "save_state"
    /\ UNCHANGED <<argv, args, model, tokenizer, dataset, outdir, raised,
                   exit_status>>
    /\ UNCHANGED transformVars

\* trainer = Trainer(model=model, ..., train_dataset=dataset["train"],
\*                   eval_dataset=dataset["test"], tokenizer=tokenizer, ...)
MakeTrainer ==
    /\ pc = "Trainer"
    /\ log' = Append(log, "Trainer")
    /\ \E ok \in BOOLEAN :
         IF ok
         THEN /\ trainer' = [model         |-> model,
                             train_dataset |-> dataset.rows["train"],
                             eval_dataset  |-> dataset.rows["test"],
                             tokenizer     |-> tokenizer,
                             trained       |-> FALSE]
              /\ pc' = "train"
              /\ UNCHANGED <<raised, exit_status>>
         ELSE /\ Raise("Trainer", "Fault", 1)
              /\ UNCHANGED trainer
    /\ UNCHANGED <<argv, args, model, tokenizer, dataset, outdir>>
    /\ UNCHANGED transformVars

\* trainer.train()
Train ==
    /\ pc = "train"
    /\ log' = Append(log, "train")
    /\ \E ok \in BOOLEAN :
         IF ok
         THEN /\ trainer' = [trainer EXCEPT !.trained = TRUE]
              /\ pc' = "save_state"
              /\ UNCHANGED <<raised, exit_status>>
         ELSE /\ Raise("train", "Fault", 1)
              /\ UNCHANGED trainer
    /\ UNCHANGED <<argv, args, model, tokenizer, dataset, outdir>>
    /\ UNCHANGED transformVars

\* trainer.save_state()
SaveState ==
    /\ pc = "save_state"
    /\ log' = Append(log, "save_state")
    /\ \E ok \in BOOLEAN :
         IF ok
         THEN /\ outdir' = outdir \cup {"trainer_state"}
              /\ pc' = "save_model"
              /\ UNCHANGED <<raised, exit_status>>
         ELSE /\ Raise("save_state", "Fault", 1)
              /\ UNCHANGED outdir
    /\ UNCHANGED <<argv, args, model, tokenizer, dataset, trainer>>
    /\ UNCHANGED transformVars

\* trainer.save_model(output_dir=training_args.output_dir); train() returns
SaveModel ==
    /\ pc = "save_model"
    /\ log' = Append(log, "save_model")
    /\ \E ok \in BOOLEAN :
         IF ok
         THEN /\ outdir' = outdir \cup {"model"}
              /\ pc' = "done"
              /\ exit_status' = 0
              /\ UNCHANGED raised
         ELSE /\ Raise("save_model", "Fault", 1)
              /\ UNCHANGED outdir
    /\ UNCHANGED <<argv, args, model, tokenizer, dataset, trainer>>
    /\ UNCHANGED transformVars

(***************************************************************************)
(* Specification of a run of train().                                      *)
(***************************************************************************)
TransformIdle ==
    /\ tpc = "idle"
    /\ batch = [prompt |-> << >>]
    /\ heap = << >>
    /\ outputs = [input_ids |-> 0, attention_mask |-> 0]
    /\ labels = 0
    /\ ret = [input_ids |-> 0, attention_mask |-> 0,
              labels |-> 0]

Init ==
    /\ pc = "parse_args"
    /\ argv \in Argvs
    /\ args = [kind |-> None]
    /\ model = [kind |-> None]
    /\ tokenizer = [kind |-> None]
    /\ dataset = [kind |-> None]
    /\ trainer = [kind |-> None]
    /\ outdir = {}
    /\ log = << >>
    /\ raised = << >>
    /\ exit_status = -1
    /\ TransformIdle

Next ==
    \/ ParseArgs
    \/ LoadModel
    \/ LoadTokenizer
    \/ SetPadTokenId
    \/ InjectAdapter
    \/ SkipAdapter
    \/ LoadFromDisk
    \/ LoadDataset
    \/ SetTransform
    \/ TrainTestSplit
    \/ MakeTrainer
    \/ Train
    \/ SaveState
    \/ SaveModel

Spec == Init /\ [][Next]_vars

(***************************************************************************)
(* Specification of a call of dataset_transform, made while trainer.train()*)
(* fetches a batch: the tokenizer is the one train() configured.           *)
(***************************************************************************)
RECURSIVE TextsOfLen(_)
TextsOfLen(n) ==
    IF n = 0 THEN {<< >>}
    ELSE {Append(t, c) : t \in TextsOfLen(n - 1), c \in Chars}

Prompts ==
    UNION {TextsOfLen(n) : n \in 0..MaxPromptLen}
    \cup {Fill("a", max_length + MaxOver)}

RECURSIVE BatchesOfLen(_)
BatchesOfLen(n) ==
    IF n = 0 THEN {<< >>}
    ELSE {Append(b, p) : b \in BatchesOfLen(n - 1), p \in Prompts}

Batches == UNION {BatchesOfLen(n) : n \in 1..MaxBatch}

InitT ==
    /\ pc = "train"
    /\ argv = [use_lora |-> FALSE, model_max_length |-> default_model_max_length,
               data_path |-> "data", arch |-> "baichuan",
               disk |-> [kind |-> "Dataset", n |-> test_size + 1],
               hub |-> [kind |-> "missing"]]
    /\ \E mml \in ModelMaxLengths, pad \in {unk_token_id, eos_token_id},
          side \in {"right", "left"} :
          /\ args = [use_lora |-> FALSE, model_max_length |-> mml,
                     data_path |-> "data"]
          /\ tokenizer = SetPadToken(TokenizerFromPretrained(mml, pad, side))
    /\ model = ModelFromPretrained("baichuan")
    /\ dataset = [kind |-> "DatasetDict",
                  rows |-> [s \in {"train", "test"} |->
                               IF s = "test" THEN test_size ELSE 1],
                  origin |-> "disk", transform |-> TRUE]
    /\ trainer = [model |-> model, train_dataset |-> 1,
                  eval_dataset |-> test_size, tokenizer |-> tokenizer,
                  trained |-> FALSE]
    /\ outdir = {}
    /\ log = <<"parse_args", "load_model", "load_tokenizer", "load_from_disk",
               "set_transform", "train_test_split", "Trainer">>
    /\ raised = << >>
    /\ exit_status = -1
    /\ tpc = "tokenize"
    /\ batch \in [prompt : Batches]
    /\ heap = << >>
    /\ outputs = [input_ids |-> 0, attention_mask |-> 0]
    /\ labels = 0
    /\ ret = [input_ids |-> 0, attention_mask |-> 0,
              labels |-> 0]

NextT ==
    \/ Tokenize
    \/ Clone
    \/ MaskLabels
    \/ Return

SpecT == InitT /\ [][NextT]_vars

(***************************************************************************)
(* Properties of dataset_transform (checked under SpecT).                  *)
(***************************************************************************)
Ids == heap[ret.input_ids]
Mask == heap[ret.attention_mask]
Labels == heap[ret.labels]
Rows == 1..Len(batch.prompt)

\* C1: the three outputs have one row per prompt and every row of the three
\* has the same single length; attention_mask is 0 at a position exactly
\* when labels is -100 there.
C1_SameShapeMaskIffIgnore ==
    tpc = "returned" =>
        /\ Len(Ids) = Len(batch.prompt)
        /\ Len(Mask) = Len(batch.prompt)
        /\ Len(Labels) = Len(batch.prompt)
        /\ \A i \in Rows :
              /\ Len(Ids[i]) = Len(Ids[1])
              /\ Len(Mask[i]) = Len(Ids[1])
              /\ Len(Labels[i]) = Len(Ids[1])
              /\ \A j \in 1..Len(Ids[1]) :
                    (Mask[i][j] = 0) <=> (Labels[i][j] = ignore_index)

\* a batch of two prompts of different lengths has been transformed: one row
\* is padded, the other is not
C1_Witness ==
    /\ tpc = "returned"
    /\ Len(batch.prompt) = 2
    /\ \E i \in Rows : \E j \in 1..Len(Mask[i]) : Mask[i][j] = 0
    /\ \E i \in Rows : \A j \in 1..Len(Mask[i]) : Mask[i][j] = 1
    /\ Len(Mask[1]) > 0

\* C2: at every attended position the label is the token id, also when the
\* token id is the end-of-sequence id that is the pad token id; -100 is
\* carried only by padding positions.
C2_AttendedLabelsAreTokenIds ==
    tpc = "returned" =>
        /\ tokenizer.pad_token_id = tokenizer.eos_token_id
        /\ \A i \in Rows : \A j \in 1..Len(Mask[i]) :
              /\ Mask[i][j] = 1 => Labels[i][j] = Ids[i][j]
              /\ Labels[i][j] = ignore_index =>
                    Mask[i][j] = 0 /\ Ids[i][j] = tokenizer.pad_token_id

\* an attended end-of-sequence token and a padding position sit in one batch
C2_Witness ==
    /\ tpc = "returned"
    /\ \E i \in Rows : \E j \in 1..Len(Mask[i]) :
          Mask[i][j] = 1 /\ Ids[i][j] = tokenizer.pad_token_id
    /\ \E i \in Rows : \E j \in 1..Len(Mask[i]) :
          Mask[i][j] = 0 /\ Ids[i][j] = tokenizer.pad_token_id

\* C9: every sequence returned by dataset_transform is at most
\* tokenizer.model_max_length long, whatever value was configured.
C9_LengthAtMostModelMaxLength ==
    tpc = "returned" =>
        \A i \in Rows :
            /\ Len(Ids[i]) <= tokenizer.model_max_length
            /\ Len(Mask[i]) <= tokenizer.model_max_length
            /\ Len(Labels[i]) <= tokenizer.model_max_length

\* C10: no step of dataset_transform changes the batch or the tokenizer, the
\* write of -100 into labels leaves the input_ids tensor as it was, and the
\* returned input_ids and attention_mask are the tokenizer's output.
C10_NoSideEffects ==
    [][ /\ batch' = batch
        /\ tokenizer' = tokenizer
        /\ tpc = "mask" =>
              /\ heap'[outputs.input_ids] = heap[outputs.input_ids]
              /\ heap'[outputs.attention_mask] = heap[outputs.attention_mask]
        /\ tpc' = "returned" =>
              /\ ret'.labels # ret'.input_ids
              /\ heap'[ret'.input_ids] =
                    TokenizerCall(tokenizer, batch.prompt, max_length).input_ids
              /\ heap'[ret'.attention_mask] =
                    TokenizerCall(tokenizer, batch.prompt,
                                  max_length).attention_mask ]_vars

\* the sentinel has been written into labels and the call has returned
C10_Witness ==
    /\ tpc = "returned"
    /\ \E i \in Rows : \E j \in 1..Len(Labels[i]) :
          Labels[i][j] = ignore_index /\ Ids[i][j] # ignore_index

(***************************************************************************)
(* Properties of train() (checked under Spec).                             *)
(***************************************************************************)
LocalLoadRaised == \E i \in 1..Len(raised) : raised[i].call = "load_from_disk"

\* C3: the local load is attempted first and a "train" split it finds is the
\* dataset used; load_dataset runs exactly when the local attempt raised,
\* and never twice.
C3_RemoteFetchIffLocalLoadRaised ==
    /\ Count("load_dataset") <= 1
    /\ Count("load_from_disk") <= 1
    /\ Count("load_dataset") = 1 =>
          /\ LocalLoadRaised
          /\ \E i, j \in 1..Len(log) :
                i < j /\ log[i] = "load_from_disk" /\ log[j] = "load_dataset"
    /\ (LocalLoadRaised /\ pc # "load_dataset") => Count("load_dataset") = 1
    /\ (pc \in {"set_transform", "train_test_split"} /\ ~LocalLoadRaised) =>
          /\ dataset.origin = "disk"
          /\ (argv.disk.kind = "DatasetDict"
              /\ "train" \in DOMAIN argv.disk.rows) =>
                 /\ dataset.kind = "Dataset"
                 /\ dataset.split = "train"
                 /\ dataset.n = argv.disk.rows["train"]

\* the local load raised and the remote fetch supplied the dataset
C3_Witness ==
    /\ pc = "set_transform"
    /\ LocalLoadRaised
    /\ Count("load_dataset") = 1
    /\ dataset.origin = "hub"

NoFault ==
    \A i \in 1..Len(raised) : raised[i].type \notin {"Fault", "SystemExit"}

ToyDatasetOnDisk ==
    /\ argv.data_path = "data"
    /\ \/ argv.disk.kind = "Dataset" /\ argv.disk.n >= 1
       \/ /\ argv.disk.kind = "DatasetDict"
          /\ "train" \in DOMAIN argv.disk.rows
          /\ argv.disk.rows["train"] >= 1

\* C4: with a dataset of N >= 1 prompts at data_path and default arguments,
\* a run in which no collaborator fails ends after training with the
\* trainer state and the model in the output directory.
C4_ToyDatasetRunCompletes ==
    (/\ pc \in {"done", "failed"}
     /\ ToyDatasetOnDisk
     /\ ~argv.use_lora
     /\ argv.model_max_length = default_model_max_length
     /\ NoFault)
    => /\ pc = "done"
       /\ Count("train") = 1
       /\ {"trainer_state", "model"} \subseteq outdir

TrainerBuilt == "model" \in DOMAIN trainer

\* C5: with use_lora the Trainer's model has every base parameter frozen and
\* exactly the adapter parameters trainable; without it the Trainer's model
\* is the pretrained model, unwrapped, all parameters trainable, no adapter.
C5_TrainableParameters ==
    TrainerBuilt =>
        LET rg   == trainer.model.requires_grad
            base == BaseModules(argv.arch) \X {"weight"}
        IN  IF args.use_lora
            THEN /\ base \subseteq DOMAIN rg
                 /\ \A p \in base : ~rg[p]
                 /\ \E p \in DOMAIN rg : p[2] \in AdapterNames
                 /\ \A p \in DOMAIN rg : rg[p] <=> p[2] \in AdapterNames
            ELSE /\ ~trainer.model.wrapped
                 /\ DOMAIN rg = base
                 /\ \A p \in base : rg[p]
                 /\ trainer.model = ModelFromPretrained(argv.arch)

\* the Trainer holds an adapter-wrapped model
C5_Witness ==
    /\ TrainerBuilt
    /\ args.use_lora
    /\ trainer.model.wrapped

\* C7: an exception raised by any call other than the local dataset load
\* ends the run: the status is non-zero, the call was made once, and it is
\* the last call of the run.
C7_FailuresPropagate ==
    /\ \A i \in 1..Len(raised) :
          raised[i].call # "load_from_disk" =>
              /\ pc = "failed"
              /\ exit_status > 0
              /\ i = Len(raised)
              /\ Last(log) = raised[i].call
              /\ Count(raised[i].call) = 1
              /\ \A k \in 1..Len(log) :
                    IndexOf(log[k]) <= IndexOf(raised[i].call)
    /\ pc = "failed" => raised # << >> /\ Last(raised).call # "load_from_disk"

\* the remote fetch, run by the handler of the local load, has failed
C7_Witness ==
    /\ pc = "failed"
    /\ Len(raised) = 2
    /\ raised[1].call = "load_from_disk"
    /\ raised[2].call = "load_dataset"

\* C8: the run exits with success only after train, save_state and
\* save_model, in that order, and no save runs before training completed.
C8_SuccessAfterTrainThenSaves ==
    /\ exit_status = 0 <=> pc = "done"
    /\ pc = "done" =>
          /\ Len(log) >= 3
          /\ SubSeq(log, Len(log) - 2, Len(log)) =
                <<"train", "save_state", "save_model">>
          /\ Count("train") = 1
          /\ Count("save_state") = 1
          /\ Count("save_model") = 1
          /\ {"trainer_state", "model"} \subseteq outdir
    /\ \A k \in 1..Len(log) :
          log[k] \in {"save_state", "save_model"} =>
              /\ TrainerBuilt /\ trainer.trained
              /\ \E j \in 1..(k - 1) : log[j] = "train"
    /\ \A k \in 1..Len(log) :
          log[k] = "save_model" => \E j \in 1..(k - 1) : log[j] = "save_state"

\* a run has ended with success
C8_Witness ==
    /\ pc = "done"
    /\ exit_status = 0
    /\ outdir = {"trainer_state", "model"}

====
